---- MODULE Spec2Model ----
(***************************************************************************)
(* Model of docker-nexus (src/app.js): the ownership handle (rust.own),    *)
(* the concurrent task runner (go.goroutine / go.concurrent), the          *)
(* isolation, runtime and image modules (IsolationModule, RuntimeModule,   *)
(* ImageModule) and the engine's dispatcher (DockerNexusEngine.execute).   *)
(*                                                                         *)
(* The specifications share the definitions below:                         *)
(*   SpecHandle  clients calling borrow() and drop() on ownership handles  *)
(*   SpecGo      one go.concurrent(tasks) call over arbitrary tasks        *)
(*   Spec        the engine: isolateContainer, runContainer,               *)
(*               listContainers, getContainerLogs                          *)
(*   SpecBuild   one buildImage call over an arbitrary build file          *)
(*   SpecImage   buildImage and pullImage calls sharing the image store    *)
(*   SpecDispatch  DockerNexusEngine.execute over all five modules         *)
(***************************************************************************)
EXTENDS Integers, Sequences, FiniteSets, TLC

VARIABLES
  hHandles,      \* SpecHandle: handle id -> handle object made by rust.own
  hLast,         \* SpecHandle: the last borrow()/drop() call and what it did
  hReleases,     \* SpecHandle: handle id -> times drop() ran past its guard
  hErrBorrowed,  \* SpecHandle: errors thrown by borrow() on a Borrowed handle
  hErrDropped,   \* SpecHandle: errors thrown by borrow() on a Dropped handle
  goTasks,       \* SpecGo: the tasks handed to go.concurrent
  goTs,          \* SpecGo: the goroutine promises and the Promise.all over them
  goCaller,      \* SpecGo: the caller awaiting go.concurrent(tasks)
  goOrder,       \* SpecGo: the order in which the tasks settled
  nsTable,       \* Spec: IsolationModule.namespaces, name -> namespace
  cgTable,       \* Spec: IsolationModule.cgroups, name -> cgroup
  isoContainers, \* Spec: IsolationModule.containers, in insertion order
  rtContainers,  \* Spec: RuntimeModule.containers, in insertion order
  rtProcesses,   \* Spec: RuntimeModule.processes, container id -> process
  rtNetworks,    \* Spec: RuntimeModule.networks, container id -> network
  calls,         \* Spec: the isolateContainer / runContainer calls made so far
  nextId,        \* Spec: number of container ids generated so far
  immediates,    \* Spec: the setImmediate queue: <<call, task>> callbacks, oldest first
  lastRead,      \* Spec: the listContainers / getContainerLogs call just made, if
                 \*       that was the latest operation, and its outcome
  images,        \* SpecBuild, SpecImage: ImageModule.images, key -> image
  builds,        \* SpecBuild, SpecImage: the buildImage calls made so far
  netNetworks,   \* SpecDispatch: NetworkModule.networks, the names in use
  volumes,       \* SpecDispatch: StorageModule.volumes, the names in use
  modStats,      \* SpecDispatch: each module's stats (operations, errors)
  metrics,       \* SpecDispatch: DockerNexusEngine.metrics
  dispatches     \* SpecDispatch: the execute calls made so far

handleVars == <<hHandles, hLast, hReleases, hErrBorrowed, hErrDropped>>
goVars     == <<goTasks, goTs, goCaller, goOrder>>
engineVars == <<nsTable, cgTable, isoContainers, rtContainers, rtProcesses,
                rtNetworks, calls, nextId, immediates, lastRead>>
imageVars  == <<images, builds>>
dispatchVars == <<netNetworks, volumes, modStats, metrics, dispatches>>
vars       == <<handleVars, goVars, engineVars, imageVars, dispatchVars>>

(***************************************************************************)
(* Bounds                                                                  *)
(***************************************************************************)
MaxHandles == 3
MaxTasks   == 3
MaxVal     == 2
MaxReleases == 2
MaxCalls   == 2
MaxIsoIds  == 2
MaxLines   == 2
MaxBuilds  == 2
MaxDispatch == 2

(***************************************************************************)
(* rust.own: the ownership handle (src/app.js 74-94)                       *)
(***************************************************************************)
ErrCannotBorrow == "Cannot borrow: resource already borrowed or dropped"
NoError == ""

\* rust.own(resource, lifetime): a fresh handle, neither borrowed nor dropped
own(resource, lifetime) ==
  [resource |-> resource, lifetime |-> lifetime,
   borrowed |-> FALSE, dropped |-> FALSE]

\* a borrow() that checks only for a dropped handle
borrow_ignoresBorrowed(h) ==
  IF h.dropped
    THEN [threw |-> TRUE, error |-> ErrCannotBorrow, value |-> {}, handle |-> h]
    ELSE [threw |-> FALSE, error |-> NoError, value |-> {h.resource},
          handle |-> [h EXCEPT !.borrowed = TRUE]]

\* handle.borrow(): throws when borrowed or dropped; otherwise marks the
\* handle borrowed and returns the resource.  `value` is the set of returned
\* references (empty when the call throws).
borrow(h) ==
  IF h.borrowed \/ h.dropped
    THEN [threw |-> TRUE, error |-> ErrCannotBorrow, value |-> {}, handle |-> h]
    ELSE [threw |-> FALSE, error |-> NoError, value |-> {h.resource},
          handle |-> [h EXCEPT !.borrowed = TRUE]]

\* a drop() that gives the borrow back instead of dropping the handle
drop_release(h) ==
  IF h.dropped
    THEN [threw |-> FALSE, released |-> FALSE, handle |-> h]
    ELSE [threw |-> FALSE, released |-> TRUE,
          handle |-> [h EXCEPT !.borrowed = FALSE]]

\* a drop() that forgets its guard and runs the release again
drop_noGuard(h) ==
  [threw |-> FALSE, released |-> TRUE,
   handle |-> [h EXCEPT !.dropped = TRUE, !.borrowed = FALSE]]

\* handle.drop(): returns at once when already dropped; otherwise marks the
\* handle dropped, clears borrowed and runs the cleanup (released).
drop(h) ==
  IF h.dropped
    THEN [threw |-> FALSE, released |-> FALSE, handle |-> h]
    ELSE [threw |-> FALSE, released |-> TRUE,
          handle |-> [h EXCEPT !.dropped = TRUE, !.borrowed = FALSE]]

HandleIds == 1..MaxHandles
HState(h) == IF h.dropped THEN "Dropped" ELSE IF h.borrowed THEN "Borrowed" ELSE "Free"

NoCall == [op |-> "none", h |-> 0, threw |-> FALSE, error |-> NoError,
           value |-> {}, pre |-> "Free", post |-> "Free", same |-> TRUE]

InitHandleVars ==
  /\ hHandles = [i \in HandleIds |-> own(i, "scoped")]
  /\ hLast = NoCall
  /\ hReleases = [i \in HandleIds |-> 0]
  /\ hErrBorrowed = {}
  /\ hErrDropped = {}

\* a client calls hHandles[i].borrow()
Borrow(i) ==
  LET h == hHandles[i]
      r == borrow(h)
  IN /\ hHandles' = [hHandles EXCEPT ![i] = r.handle]
     /\ hLast' = [op |-> "borrow", h |-> i, threw |-> r.threw, error |-> r.error,
                  value |-> r.value, pre |-> HState(h), post |-> HState(r.handle),
                  same |-> (r.handle = h)]
     /\ hErrBorrowed' = IF r.threw /\ HState(h) = "Borrowed"
                          THEN hErrBorrowed \cup {r.error} ELSE hErrBorrowed
     /\ hErrDropped' = IF r.threw /\ HState(h) = "Dropped"
                         THEN hErrDropped \cup {r.error} ELSE hErrDropped
     /\ UNCHANGED <<hReleases, goVars, engineVars, imageVars, dispatchVars>>

\* a client calls hHandles[i].drop()
Drop(i) ==
  LET h == hHandles[i]
      r == drop(h)
  IN /\ hReleases[i] < MaxReleases
     /\ hHandles' = [hHandles EXCEPT ![i] = r.handle]
     /\ hLast' = [op |-> "drop", h |-> i, threw |-> r.threw, error |-> NoError,
                  value |-> {}, pre |-> HState(h), post |-> HState(r.handle),
                  same |-> (r.handle = h)]
     /\ hReleases' = [hReleases EXCEPT ![i] = @ + (IF r.released THEN 1 ELSE 0)]
     /\ UNCHANGED <<hErrBorrowed, hErrDropped, goVars, engineVars, imageVars, dispatchVars>>

(***************************************************************************)
(* go.goroutine / go.concurrent (src/app.js 54-69)                         *)
(*                                                                         *)
(* go.concurrent(tasks) makes one promise per task with go.goroutine and   *)
(* returns Promise.all over them.  go.goroutine(fn) queues a setImmediate  *)
(* callback; the callback calls fn(), awaits it, and resolves or rejects   *)
(* the task's promise.  setImmediate callbacks run in the order queued;    *)
(* the tasks they start settle in any order.                               *)
(*                                                                         *)
(* A task set is [st, vals, remaining, all, reason]:                       *)
(*   st[i]      "queued" | "running" | "fulfilled" | "rejected"            *)
(*   vals[i]    Promise.all's value slot for task i ({} while unset)       *)
(*   remaining  Promise.all's count of elements still unresolved           *)
(*   all        the Promise.all promise: "pending"|"fulfilled"|"rejected"  *)
(*   reason     the rejection reason of the Promise.all promise            *)
(***************************************************************************)
concurrent(n) ==
  [st        |-> [i \in 1..n |-> "queued"],
   vals      |-> [i \in 1..n |-> {}],
   remaining |-> n,
   all       |-> IF n = 0 THEN "fulfilled" ELSE "pending",
   reason    |-> {}]

\* the setImmediate callback of task i may run: it is the oldest one queued
canStart(ts, i) ==
  /\ i \in DOMAIN ts.st
  /\ ts.st[i] = "queued"
  /\ \A j \in DOMAIN ts.st : j < i => ts.st[j] # "queued"

\* go.goroutine's callback starts task i (calls fn())
goroutine(ts, i) == [ts EXCEPT !.st[i] = "running"]

\* a Promise.all that files each value in the order the tasks complete
promiseAllResolve_byCompletion(ts, i, v) ==
  LET k == Len(ts.vals) - ts.remaining + 1
  IN [ts EXCEPT !.vals[k] = {v},
                !.remaining = @ - 1,
                !.all = IF ts.remaining = 1 /\ ts.all = "pending"
                          THEN "fulfilled" ELSE @]

\* Promise.all, element i fulfilled with v: the value is filed at index i and
\* the promise fulfils when no element remains
promiseAllResolve(ts, i, v) ==
  [ts EXCEPT !.vals[i] = {v},
             !.remaining = @ - 1,
             !.all = IF ts.remaining = 1 /\ ts.all = "pending"
                       THEN "fulfilled" ELSE @]

\* Promise.all, an element rejected with r: the promise rejects at once with
\* the first reason; later rejections change nothing
promiseAllReject(ts, r) ==
  IF ts.all = "pending"
    THEN [ts EXCEPT !.all = "rejected", !.reason = {r}]
    ELSE ts

\* task i settles: go.goroutine resolves (ok) or rejects its promise with v
settle(ts, i, ok, v) ==
  IF ok
    THEN promiseAllResolve([ts EXCEPT !.st[i] = "fulfilled"], i, v)
    ELSE promiseAllReject([ts EXCEPT !.st[i] = "rejected"], v)

\* what `await go.concurrent(tasks)` gives the caller once Promise.all settled
awaited(ts) ==
  IF ts.all = "fulfilled"
    THEN [threw |-> FALSE, error |-> {},
          value |-> [i \in DOMAIN ts.vals |-> CHOOSE v \in ts.vals[i] : TRUE]]
    ELSE [threw |-> TRUE, error |-> ts.reason, value |-> <<>>]

Finished(ts, i) == ts.st[i] \in {"fulfilled", "rejected"}

TaskInputs == [ok : BOOLEAN, val : 1..MaxVal]
TaskLists  == UNION {[1..n -> TaskInputs] : n \in 0..MaxTasks}

InitGoVars ==
  /\ goTasks = <<>>
  /\ goTs = concurrent(0)
  /\ goCaller = [pc |-> "idle", threw |-> FALSE, error |-> {}, value |-> <<>>]
  /\ goOrder = <<>>

\* a caller runs `await go.concurrent(tasks)`
Concurrent ==
  /\ goCaller.pc = "idle"
  /\ \E tasks \in TaskLists :
       /\ goTasks' = tasks
       /\ goTs' = concurrent(Len(tasks))
  /\ goCaller' = [goCaller EXCEPT !.pc = "awaiting"]
  /\ UNCHANGED <<goOrder, handleVars, engineVars, imageVars, dispatchVars>>

\* the await continuation is a microtask: once Promise.all has settled it runs
\* before any further setImmediate callback or I/O completion
GoResumeDue == goCaller.pc = "awaiting" /\ goTs.all # "pending"

\* the setImmediate callback of task i runs
GoroutineStart(i) ==
  /\ goCaller.pc # "idle"
  /\ ~GoResumeDue
  /\ canStart(goTs, i)
  /\ goTs' = goroutine(goTs, i)
  /\ UNCHANGED <<goTasks, goCaller, goOrder, handleVars, engineVars, imageVars, dispatchVars>>

\* task i completes, with the outcome the task has
TaskSettle(i) ==
  /\ ~GoResumeDue
  /\ i \in DOMAIN goTs.st
  /\ goTs.st[i] = "running"
  /\ goTs' = settle(goTs, i, goTasks[i].ok, goTasks[i].val)
  /\ goOrder' = Append(goOrder, i)
  /\ UNCHANGED <<goTasks, goCaller, handleVars, engineVars, imageVars, dispatchVars>>

\* the caller's await completes
AwaitResume ==
  /\ GoResumeDue
  /\ LET r == awaited(goTs)
     IN goCaller' = [pc |-> IF r.threw THEN "threw" ELSE "returned",
                     threw |-> r.threw, error |-> r.error, value |-> r.value]
  /\ UNCHANGED <<goTasks, goTs, goOrder, handleVars, engineVars, imageVars, dispatchVars>>

(***************************************************************************)
(* rust.result (src/app.js 104-118)                                        *)
(***************************************************************************)
\* rust.result(value, error): isOk is !error, so a null (or empty) error
\* makes an Ok result.  `value` is {} for null and {v} otherwise.
result(value, error) ==
  [isOk |-> (error = NoError), isErr |-> (error # NoError),
   value |-> value, error |-> error]

NoResult == [isOk |-> FALSE, isErr |-> FALSE, value |-> {}, error |-> NoError]

(***************************************************************************)
(* JavaScript Map: set(k, v), and the insertion-ordered view used where    *)
(* the code iterates (this.containers)                                     *)
(***************************************************************************)
EmptyMap == [x \in {} |-> {}]
MapSet(m, k, v) == [x \in DOMAIN m \cup {k} |-> IF x = k THEN v ELSE m[x]]

SeqHas(sq, id) == \E k \in DOMAIN sq : sq[k].id = id
SeqGet(sq, id) == sq[CHOOSE k \in DOMAIN sq : sq[k].id = id].handle
SeqSet(sq, id, h) ==
  IF SeqHas(sq, id)
    THEN [k \in DOMAIN sq |-> IF sq[k].id = id THEN [id |-> id, handle |-> h] ELSE sq[k]]
    ELSE Append(sq, [id |-> id, handle |-> h])

(***************************************************************************)
(* Module construction (src/app.js 213-225, 610-616): the fields each      *)
(* module's constructor sets, besides those of DockerModule                *)
(***************************************************************************)
IsolationFields ==
  {"linuxEssence", "rustEssence", "goEssence", "namespaces", "cgroups", "containers"}
\* RuntimeModule's constructor sets no goEssence, though runContainer uses it
RuntimeFields == {"containers", "processes", "networks"}

ErrNoConcurrent == "Cannot read properties of undefined (reading 'concurrent')"
ErrNoResources  == "Cannot read properties of undefined (reading 'resources')"
ErrNoSplit      == "volume.split is not a function"

\* the task set of a call that never reached go.concurrent
NoTaskSet == [st |-> <<>>, vals |-> <<>>, remaining |-> 0, all |-> "none",
              reason |-> {}]

\* `this.goEssence.concurrent(tasks)` evaluated in a module with these fields:
\* a TypeError when the module has no goEssence, else go.concurrent(tasks)
goEssenceConcurrent(fields, n) ==
  IF "goEssence" \in fields
    THEN [threw |-> FALSE, error |-> NoError, ts |-> concurrent(n)]
    ELSE [threw |-> TRUE, error |-> ErrNoConcurrent, ts |-> NoTaskSet]

(***************************************************************************)
(* linux.namespace / linux.cgroup (src/app.js 123-147)                     *)
(***************************************************************************)
namespace(type) == [type |-> type, processes |-> {}, isolated |-> TRUE]

\* limits: { memory: '512m', cpu: '1.0', ...limits }; memory "" = key absent
cgroup(name, limits) ==
  [name |-> name,
   limits |-> [memory |-> IF limits.memory = "" THEN "512m" ELSE limits.memory,
               cpu |-> "1.0"],
   processes |-> {}]

(***************************************************************************)
(* IsolationModule (src/app.js 213-343)                                    *)
(***************************************************************************)
NsTypes == <<"pid", "net", "mnt">>

\* createNamespace(type, name): stores the namespace under name (no check for
\* an existing name) and returns an Ok result
createNamespace(table, type, name) ==
  [table  |-> MapSet(table, name, namespace(type)),
   result |-> result({[namespace |-> name, type |-> type, isolated |-> TRUE]}, NoError)]

\* createCgroup(name, limits): stores the cgroup under name, returns Ok
createCgroup(table, name, limits) ==
  [table  |-> MapSet(table, name, cgroup(name, limits)),
   result |-> result({[cgroup |-> name, limits |-> limits, enforced |-> TRUE]}, NoError)]

\* the resource isolateContainer wraps in rust.own
isolationResource(id, config) ==
  [id |-> id, config |-> config, namespaces |-> <<>>, cgroups |-> <<>>]

\* an isolation task that, when the cgroup task fails, removes the namespaces
\* made for the container
isolationTask_rollback(i, id, config, ns, cg) ==
  IF i <= 3
    THEN LET r == createNamespace(ns, NsTypes[i], <<id, NsTypes[i]>>)
         IN [ok |-> TRUE, val |-> r.result, ns |-> r.table, cg |-> cg]
    ELSE IF ~config.defined
      THEN [ok |-> FALSE, val |-> ErrNoResources,
            ns |-> [x \in {n \in DOMAIN ns : n[1] # id} |-> ns[x]], cg |-> cg]
      ELSE LET r == createCgroup(cg, id, config.resources)
           IN [ok |-> TRUE, val |-> r.result, ns |-> ns, cg |-> r.table]

\* task i of isolateContainer's isolationTasks, run in state (ns, cg): the
\* tables after it, whether it fulfils, and its value or rejection reason.
\* Task 4 reads config.resources, a TypeError when config is undefined.
isolationTask(i, id, config, ns, cg) ==
  IF i <= 3
    THEN LET r == createNamespace(ns, NsTypes[i], <<id, NsTypes[i]>>)
         IN [ok |-> TRUE, val |-> r.result, ns |-> r.table, cg |-> cg]
    ELSE IF ~config.defined
      THEN [ok |-> FALSE, val |-> ErrNoResources, ns |-> ns, cg |-> cg]
      ELSE LET r == createCgroup(cg, id, config.resources)
           IN [ok |-> TRUE, val |-> r.result, ns |-> ns, cg |-> r.table]

\* isolateContainer after `await this.goEssence.concurrent(isolationTasks)`:
\* r is what the await gave.  A rejected await, a failed borrow or an unwrap
\* of an Err result throws out of isolateContainer (it has no try/catch).
isolateContainerResume(h, r, containers) ==
  IF r.threw
    THEN [pc |-> "threw", thrown |-> r.error, handle |-> h,
          containers |-> containers, result |-> NoResult]
    ELSE LET b == borrow(h)
             bad == {k \in DOMAIN r.value : r.value[k].isErr}
         IN IF b.threw
              THEN [pc |-> "threw", thrown |-> {b.error}, handle |-> h,
                    containers |-> containers, result |-> NoResult]
            ELSE IF bad # {}
              THEN [pc |-> "threw",
                    thrown |-> {r.value[CHOOSE k \in bad : \A j \in bad : k <= j].error},
                    handle |-> b.handle, containers |-> containers,
                    result |-> NoResult]
            ELSE LET h2 == [b.handle EXCEPT
                              !.resource.namespaces = SubSeq(r.value, 1, 3),
                              !.resource.cgroups = <<r.value[4]>>]
                 IN [pc |-> "returned", thrown |-> {}, handle |-> h2,
                     containers |-> SeqSet(containers, h.resource.id, h2),
                     result |-> result({[containerId |-> h.resource.id,
                                         isolated |-> TRUE, namespaces |-> 3]},
                                       NoError)]

(***************************************************************************)
(* RuntimeModule (src/app.js 610-868)                                      *)
(***************************************************************************)
\* the record runContainer wraps in rust.own
containerRecord(id, image, opts) ==
  [id |-> id, image |-> image, status |-> "created", volumes |-> opts.volumes,
   pid |-> {}, started |-> {}, error |-> NoError, logs |-> <<>>]

\* task i of runContainer's startupTasks: setupContainerNetwork,
\* setupContainerVolumes (volume.split throws on a non-string volume),
\* startContainerProcess (writes container.pid through the borrowed record)
startupTask(i, h, nets, procs) ==
  LET id == h.resource.id IN
  CASE i = 1 ->
         LET network == [containerId |-> id, bridge |-> "docker-nexus0"]
         IN [ok |-> TRUE, val |-> network, handle |-> h,
             nets |-> MapSet(nets, id, network), procs |-> procs]
    [] i = 2 ->
         IF \E k \in DOMAIN h.resource.volumes : ~h.resource.volumes[k].isString
           THEN [ok |-> FALSE, val |-> ErrNoSplit, handle |-> h,
                 nets |-> nets, procs |-> procs]
           ELSE [ok |-> TRUE, val |-> h.resource.volumes, handle |-> h,
                 nets |-> nets, procs |-> procs]
    [] OTHER ->
         LET mockProcess == [pid |-> "pid", status |-> "running"]
         IN [ok |-> TRUE, val |-> mockProcess,
             handle |-> [h EXCEPT !.resource.pid = {"pid"}],
             nets |-> nets, procs |-> MapSet(procs, id, mockProcess)]

\* a catch block that reports the container as running
runContainerCatch_running(h, msg) ==
  [pc |-> "returned", thrown |-> {},
   handle |-> [h EXCEPT !.resource.status = "running", !.resource.error = msg],
   result |-> result({}, msg)]

\* a catch block that rethrows instead of returning a result
runContainerCatch_rethrow(h, msg) ==
  [pc |-> "threw", thrown |-> {msg},
   handle |-> [h EXCEPT !.resource.status = "failed"],
   result |-> NoResult]

\* a catch block that marks the container as stopped
runContainerCatch_stopped(h, msg) ==
  [pc |-> "returned", thrown |-> {},
   handle |-> [h EXCEPT !.resource.status = "stopped", !.resource.error = msg],
   result |-> result({}, msg)]

\* runContainer's catch block: status 'failed', the message stored on the
\* record, an Err result returned; the container is not registered
runContainerCatch(h, msg) ==
  [pc |-> "returned", thrown |-> {},
   handle |-> [h EXCEPT !.resource.status = "failed", !.resource.error = msg],
   result |-> result({}, msg)]

\* runContainer after the await fulfilled: status 'running', the start time
\* recorded, the handle registered, an Ok result returned
runContainerStarted(h, containers) ==
  LET h2 == [h EXCEPT !.resource.status = "running", !.resource.started = {"now"}]
  IN [pc |-> "returned", thrown |-> {}, handle |-> h2,
      containers |-> SeqSet(containers, h.resource.id, h2),
      result |-> result({[containerId |-> h.resource.id, status |-> "running",
                          image |-> h.resource.image]}, NoError)]

\* listContainers' map over this.containers.values(), from index k: each
\* handle is borrowed in turn; the first borrow that throws ends the call,
\* leaving the handles before it borrowed
RECURSIVE borrowEach(_, _)
borrowEach(sq, k) ==
  IF k > Len(sq)
    THEN [threw |-> FALSE, error |-> NoError, containers |-> sq, rows |-> <<>>]
    ELSE LET b == borrow(sq[k].handle)
         IN IF b.threw
              THEN [threw |-> TRUE, error |-> b.error, containers |-> sq,
                    rows |-> <<>>]
              ELSE LET rest == borrowEach([sq EXCEPT ![k].handle = b.handle], k + 1)
                       c == b.handle.resource
                   IN [rest EXCEPT !.rows =
                         IF rest.threw THEN <<>>
                         ELSE <<[containerId |-> c.id, image |-> c.image,
                                 status |-> c.status]>> \o @]

\* listContainers(showAll): the summaries of all containers, or only of the
\* running ones
listContainers(containers, showAll) ==
  LET m == borrowEach(containers, 1)
      IsRunning(row) == row.status = "running"
  IN [threw |-> m.threw, error |-> m.error, containers |-> m.containers,
      rows |-> IF showAll THEN m.rows ELSE SelectSeq(m.rows, IsRunning)]

\* a getContainerLogs that throws for an id it does not know
getContainerLogs_throwsUnknown(containers, id) ==
  IF ~SeqHas(containers, id)
    THEN [threw |-> TRUE, error |-> "Container not found",
          containers |-> containers, result |-> NoResult]
    ELSE LET b == borrow(SeqGet(containers, id))
         IN IF b.threw
              THEN [threw |-> TRUE, error |-> b.error, containers |-> containers,
                    result |-> NoResult]
              ELSE [threw |-> FALSE, error |-> NoError,
                    containers |-> SeqSet(containers, id, b.handle),
                    result |-> result({[containerId |-> id,
                                        logs |-> b.handle.resource.logs]}, NoError)]

\* getContainerLogs(containerId)
getContainerLogs(containers, id) ==
  IF ~SeqHas(containers, id)
    THEN [threw |-> FALSE, error |-> NoError, containers |-> containers,
          result |-> result({}, "Container not found")]
    ELSE LET b == borrow(SeqGet(containers, id))
         IN IF b.threw
              THEN [threw |-> TRUE, error |-> b.error, containers |-> containers,
                    result |-> NoResult]
              ELSE [threw |-> FALSE, error |-> NoError,
                    containers |-> SeqSet(containers, id, b.handle),
                    result |-> result({[containerId |-> id,
                                        logs |-> b.handle.resource.logs]}, NoError)]

(***************************************************************************)
(* The engine: calls into IsolationModule and RuntimeModule                *)
(*                                                                         *)
(* calls[c] is one isolateContainer or runContainer call: its arguments,   *)
(* its local handle (containerResource), its task set, and how it ended    *)
(* (pc "returned" with a result, or "threw").  Once a handle is registered *)
(* in a containers map the map holds the live object; calls[c].handle      *)
(* keeps the object as the call left it.                                   *)
(*                                                                         *)
(* generateContainerId draws 32 random bytes; the model hands out fresh    *)
(* ids 1, 2, ...                                                           *)
(***************************************************************************)
IsoIds  == 1..MaxIsoIds
Configs == {[defined |-> FALSE, resources |-> [memory |-> ""]],
            [defined |-> TRUE,  resources |-> [memory |-> ""]],
            [defined |-> TRUE,  resources |-> [memory |-> "1g"]]}
Images  == {"alpine"}
Options == {[volumes |-> <<>>],
            [volumes |-> <<[isString |-> TRUE]>>],
            [volumes |-> <<[isString |-> FALSE]>>]}

NoRead == [op |-> "none", all |-> FALSE, id |-> 0, threw |-> FALSE,
           rows |-> <<>>, known |-> FALSE, result |-> NoResult]

InitEngineVars ==
  /\ nsTable = EmptyMap
  /\ cgTable = EmptyMap
  /\ isoContainers = <<>>
  /\ rtContainers = <<>>
  /\ rtProcesses = EmptyMap
  /\ rtNetworks = EmptyMap
  /\ calls = <<>>
  /\ nextId = 0
  /\ immediates = <<>>
  /\ lastRead = NoRead

\* an await continuation is due: it runs before any other callback
ResumeDue == \E c \in DOMAIN calls : calls[c].pc = "awaiting" /\ calls[c].ts.all # "pending"

Ended == {c \in DOMAIN calls : calls[c].pc # "awaiting"}

\* go.concurrent queues its tasks' setImmediate callbacks together, and Node
\* runs queued callbacks in order with only microtasks (await continuations)
\* between them.  So a new operation starts only when no continuation is due
\* and the callback at the head of the queue is the first of its call, or
\* belongs to a call that has already gone on (its await was rejected).
CanEnter ==
  /\ ~ResumeDue
  /\ IF immediates = <<>> THEN TRUE
     ELSE Head(immediates)[2] = 1 \/ calls[Head(immediates)[1]].pc # "awaiting"

\* the callbacks go.concurrent queues for the n tasks of call c
queued(c, n) == [i \in 1..n |-> <<c, i>>]

\* isolateContainer(containerId, config), up to its await
IsolateContainer(id, config) ==
  /\ Len(calls) < MaxCalls
  /\ CanEnter
  /\ immediates' = immediates \o queued(Len(calls) + 1, 4)
  /\ LET h == own(isolationResource(id, config), "container_lifetime")
         l == goEssenceConcurrent(IsolationFields, 4)
     IN calls' = Append(calls,
          [kind |-> "isolate", id |-> id, handle |-> h, ts |-> l.ts,
           pc |-> IF l.threw THEN "threw" ELSE "awaiting",
           thrown |-> IF l.threw THEN {l.error} ELSE {},
           result |-> NoResult])
  /\ lastRead' = NoRead
  /\ UNCHANGED <<nsTable, cgTable, isoContainers, rtContainers, rtProcesses,
                 rtNetworks, nextId, handleVars, goVars, imageVars, dispatchVars>>

\* runContainer(imageName, command, options), up to its await: the record is
\* made and borrowed; a throw inside the try block goes to the catch block
RunContainer(image, opts) ==
  /\ Len(calls) < MaxCalls
  /\ CanEnter
  /\ LET id == nextId + 1
         b == borrow(own(containerRecord(id, image, opts), "scoped"))
         l == goEssenceConcurrent(RuntimeFields, 3)
         e == runContainerCatch(b.handle, l.error)
     IN /\ nextId' = id
        /\ immediates' = IF l.threw THEN immediates
                          ELSE immediates \o queued(Len(calls) + 1, 3)
        /\ calls' = Append(calls,
             IF l.threw
               THEN [kind |-> "run", id |-> id, handle |-> e.handle, ts |-> l.ts,
                     pc |-> e.pc, thrown |-> e.thrown, result |-> e.result]
               ELSE [kind |-> "run", id |-> id, handle |-> b.handle, ts |-> l.ts,
                     pc |-> "awaiting", thrown |-> {}, result |-> NoResult])
  /\ lastRead' = NoRead
  /\ UNCHANGED <<nsTable, cgTable, isoContainers, rtContainers, rtProcesses,
                 rtNetworks, handleVars, goVars, imageVars, dispatchVars>>

\* the setImmediate callback of task i of call c, the oldest one queued: the
\* task's function has no suspension point, so it runs to its end and its
\* promise settles at once.  It runs whether or not call c is still awaiting.
CallTask(c, i) ==
  /\ ~ResumeDue
  /\ immediates # <<>>
  /\ Head(immediates) = <<c, i>>
  /\ canStart(calls[c].ts, i)
  /\ immediates' = Tail(immediates)
  /\ LET call == calls[c]
         ts1 == goroutine(call.ts, i)
     IN IF call.kind = "isolate"
          THEN LET t == isolationTask(i, call.id, call.handle.resource.config,
                                      nsTable, cgTable)
               IN /\ nsTable' = t.ns
                  /\ cgTable' = t.cg
                  /\ calls' = [calls EXCEPT ![c].ts = settle(ts1, i, t.ok, t.val)]
                  /\ UNCHANGED <<rtNetworks, rtProcesses>>
          ELSE LET t == startupTask(i, call.handle, rtNetworks, rtProcesses)
               IN /\ rtNetworks' = t.nets
                  /\ rtProcesses' = t.procs
                  /\ calls' = [calls EXCEPT ![c].ts = settle(ts1, i, t.ok, t.val),
                                            ![c].handle = t.handle]
                  /\ UNCHANGED <<nsTable, cgTable>>
  /\ lastRead' = NoRead
  /\ UNCHANGED <<isoContainers, rtContainers, nextId, handleVars, goVars, imageVars, dispatchVars>>

\* call c continues after its await
CallResume(c) ==
  /\ c \in DOMAIN calls
  /\ calls[c].pc = "awaiting"
  /\ calls[c].ts.all # "pending"
  /\ LET call == calls[c]
         r == awaited(call.ts)
     IN IF call.kind = "isolate"
          THEN LET e == isolateContainerResume(call.handle, r, isoContainers)
               IN /\ isoContainers' = e.containers
                  /\ calls' = [calls EXCEPT ![c].pc = e.pc, ![c].thrown = e.thrown,
                                            ![c].handle = e.handle,
                                            ![c].result = e.result]
                  /\ UNCHANGED rtContainers
          ELSE LET e == IF r.threw
                          THEN runContainerCatch(call.handle,
                                                 CHOOSE m \in r.error : TRUE)
                               @@ [containers |-> rtContainers]
                          ELSE runContainerStarted(call.handle, rtContainers)
               IN /\ rtContainers' = e.containers
                  /\ calls' = [calls EXCEPT ![c].pc = e.pc, ![c].thrown = e.thrown,
                                            ![c].handle = e.handle,
                                            ![c].result = e.result]
                  /\ UNCHANGED isoContainers
  /\ lastRead' = NoRead
  /\ UNCHANGED <<nsTable, cgTable, rtProcesses, rtNetworks, nextId, immediates,
                 handleVars, goVars, imageVars, dispatchVars>>

\* listContainers(showAll)
ListContainers(showAll) ==
  /\ CanEnter
  /\ LET r == listContainers(rtContainers, showAll)
     IN /\ rtContainers' = r.containers
        /\ lastRead' = [NoRead EXCEPT !.op = "list", !.all = showAll,
                                       !.threw = r.threw, !.rows = r.rows]
  /\ UNCHANGED <<nsTable, cgTable, isoContainers, rtProcesses, rtNetworks, calls,
                 nextId, immediates, handleVars, goVars, imageVars, dispatchVars>>

\* getContainerLogs(containerId)
GetContainerLogs(id) ==
  /\ CanEnter
  /\ LET r == getContainerLogs(rtContainers, id)
     IN /\ rtContainers' = r.containers
        /\ lastRead' = [NoRead EXCEPT !.op = "logs", !.id = id,
                                       !.threw = r.threw,
                                       !.known = SeqHas(rtContainers, id),
                                       !.result = r.result]
  /\ UNCHANGED <<nsTable, cgTable, isoContainers, rtProcesses, rtNetworks, calls,
                 nextId, immediates, handleVars, goVars, imageVars, dispatchVars>>

(***************************************************************************)
(* ImageModule (src/app.js 349-604)                                        *)
(*                                                                         *)
(* A build file is [exists, lines]: whether fs.readFile finds it, and its  *)
(* lines.  A line is [indent, word, args]: whether it starts with white    *)
(* space, its first word ("" for a blank line, "#" for a word that starts  *)
(* with '#') and the rest of the line.                                     *)
(***************************************************************************)
Line(indent, word, args) == [indent |-> indent, word |-> word, args |-> args]

\* String.toUpperCase on the words of the model
toUpperCase(w) ==
  CASE w = "from" -> "FROM"
    [] w = "run"  -> "RUN"
    [] OTHER      -> w

\* parseDockerfile's filter: line.trim() is not empty and the line itself
\* (untrimmed) does not start with '#'
keepLine(line) == line.word # "" /\ ~(~line.indent /\ line.word = "#")

\* parseDockerfile(content): the kept lines, each split into command and args
RECURSIVE parseDockerfile(_)
parseDockerfile(lines) ==
  IF lines = <<>> THEN <<>>
  ELSE LET line == Head(lines)
           rest == parseDockerfile(Tail(lines))
       IN IF keepLine(line)
            THEN <<[command |-> toUpperCase(line.word), args |-> line.args]>> \o rest
            ELSE rest

\* the instruction draws a random number (Math.random) for its layer's size
drawsRandom(instruction) == instruction.command \in {"RUN", "COPY", "ADD"}

\* a buildLayer whose switch has no EXPOSE case
buildLayer_noExpose(instruction, draw) ==
  LET command == instruction.command
      text == <<command, instruction.args>>
  IN CASE command = "FROM" ->
            [type |-> "base", instruction |-> text, size |-> 100 * 1024 * 1024]
       [] command = "RUN" ->
            [type |-> "run", instruction |-> text, size |-> draw]
       [] command \in {"COPY", "ADD"} ->
            [type |-> "copy", instruction |-> text, size |-> draw]
       [] command = "ENV" ->
            [type |-> "env", instruction |-> text, size |-> 1024]
       [] command \in {"CMD", "ENTRYPOINT"} ->
            [type |-> "entrypoint", instruction |-> text, size |-> 1024]
       [] OTHER ->
            [type |-> "unknown", instruction |-> text, size |-> 1024]

\* buildLayer(instruction, index, context): the layer of one instruction, by
\* its command.  `draw` is what Math.random gives (used by RUN, COPY, ADD);
\* the fields that repeat the args (baseImage, command, source, ...) are
\* determined by `instruction` and left out.
buildLayer(instruction, draw) ==
  LET command == instruction.command
      text == <<command, instruction.args>>
  IN CASE command = "FROM" ->
            [type |-> "base", instruction |-> text, size |-> 100 * 1024 * 1024]
       [] command = "RUN" ->
            [type |-> "run", instruction |-> text, size |-> draw]
       [] command \in {"COPY", "ADD"} ->
            [type |-> "copy", instruction |-> text, size |-> draw]
       [] command = "ENV" ->
            [type |-> "env", instruction |-> text, size |-> 1024]
       [] command = "EXPOSE" ->
            [type |-> "expose", instruction |-> text, size |-> 1024]
       [] command \in {"CMD", "ENTRYPOINT"} ->
            [type |-> "entrypoint", instruction |-> text, size |-> 1024]
       [] OTHER ->
            [type |-> "unknown", instruction |-> text, size |-> 1024]

\* generateImageId(name, layers): sha256 of `${name}:${JSON.stringify(layers)}:
\* ${Date.now()}`, modelled as the hashed content itself (no collisions)
generateImageId(name, layers, now) == <<name, layers, now>>

\* the key `${name}:${tag}` of the image store
imageKey(name, tag) == <<name, tag>>

RECURSIVE sumSizes(_)
sumSizes(layers) ==
  IF layers = <<>> THEN 0 ELSE Head(layers).size + sumSizes(Tail(layers))

ErrNoFile == "ENOENT: no such file or directory"

\* a catch block that also drops the image stored under name:latest
buildImageCatch_unpublish(store, name, msg) ==
  [store  |-> [k \in DOMAIN store \ {imageKey(name, "latest")} |-> store[k]],
   result |-> result({}, msg)]

\* buildImage's catch block: an Err result, the store untouched
buildImageCatch(store, name, msg) ==
  [store |-> store, result |-> result({}, msg)]

\* a buildImage that stores the image under the bare name
buildImageStore_bareName(store, name, layers, now) ==
  LET imageId == generateImageId(name, layers, now)
      image == [id |-> imageId, name |-> name, tag |-> "latest",
                layers |-> layers, size |-> sumSizes(layers)]
  IN [store  |-> MapSet(store, imageKey(name, ""), image),
      image  |-> image,
      result |-> result({[imageId |-> imageId, name |-> name, tag |-> "latest",
                          layers |-> Len(layers), size |-> image.size]}, NoError)]

\* buildImage after its loop: the image is made and stored under name:latest
\* and an Ok result returned (the image's metadata, which no operation of the
\* model reads, is left out)
buildImageStore(store, name, layers, now) ==
  LET imageId == generateImageId(name, layers, now)
      image == [id |-> imageId, name |-> name, tag |-> "latest",
                layers |-> layers, size |-> sumSizes(layers)]
  IN [store  |-> MapSet(store, imageKey(name, "latest"), image),
      image  |-> image,
      result |-> result({[imageId |-> imageId, name |-> name, tag |-> "latest",
                          layers |-> Len(layers), size |-> image.size]}, NoError)]

\* pullImage(name, tag) once its simulated delay is over: a one-layer image
\* stored under name:tag
pullImage(store, name, tag, now) ==
  LET layers == <<[type |-> "base", instruction |-> <<"", "">>,
                   size |-> 200 * 1024 * 1024]>>
      image == [id |-> generateImageId(name, <<>>, now), name |-> name,
                tag |-> tag, layers |-> layers, size |-> 200 * 1024 * 1024]
  IN [store  |-> MapSet(store, imageKey(name, tag), image),
      result |-> result({[imageId |-> image.id, name |-> name, tag |-> tag,
                          size |-> image.size, pulled |-> TRUE]}, NoError)]

\* the keys at which two stores differ
changedKeys(a, b) ==
  {k \in DOMAIN a \cup DOMAIN b :
     ~(k \in DOMAIN a /\ k \in DOMAIN b /\ a[k] = b[k])}

\* the keys at which a store holds an image
holdingKeys(store, image) == {k \in DOMAIN store : store[k] = image}

(***************************************************************************)
(* buildImage, step by step.  builds[b] is one call:                       *)
(*   pc "reading"   awaiting fs.readFile                                   *)
(*      "building"  in the loop, awaiting the layer of instruction `at`    *)
(*      "returned"  done, with `result`                                    *)
(* handle is buildContext (its resource holds the layers pushed so far),   *)
(* pending the layer the awaited layerTasks[at]() produced, image the       *)
(* image the call made; changed are the keys at which the call's last step *)
(* altered the store and published the keys that held the call's image     *)
(* right after that step.                                                  *)
(***************************************************************************)
Words == {"FROM", "RUN", "COPY", "ADD", "ENV", "EXPOSE", "CMD", "ENTRYPOINT",
          "LABEL", "from", "#", ""}
Lines == {Line(FALSE, w, "x") : w \in Words}
           \cup {Line(TRUE, "#", "x"), Line(TRUE, "RUN", "x")}

\* the build files of the specifications that run several operations: one
\* that cannot be read and one of two instructions, the second with a random
\* layer size
BuildFiles ==
  {[exists |-> FALSE, lines |-> <<>>],
   [exists |-> TRUE,
    lines |-> <<Line(FALSE, "FROM", "x"), Line(FALSE, "RUN", "x")>>]}

SeqsUpTo(S, n) == UNION {[1..k -> S] : k \in 0..n}
FilesOver(S) ==
  {[exists |-> TRUE, lines |-> l] : l \in SeqsUpTo(S, MaxLines)}
    \cup {[exists |-> FALSE, lines |-> <<>>]}

ImageNames == {"app"}
Tags  == {"latest", "v1"}
\* what Math.random and Date.now can give, two values of each
Draws == {0, 1}
Times == {1, 2}

InitImageVars ==
  /\ images = EmptyMap
  /\ builds = <<>>

\* the layers pushed so far by build b
Layers(b) == builds[b].handle.resource.layers

\* buildImage(name, dockerfile, context), up to `await fs.readFile`
BuildImage(name, file) ==
  /\ Len(builds) < MaxBuilds
  /\ builds' = Append(builds,
       [name |-> name, file |-> file, pc |-> "reading", instructions |-> <<>>,
        handle |-> own([name |-> name, layers |-> <<>>], "build_lifetime"),
        at |-> 0, pending |-> {}, result |-> NoResult, image |-> {},
        changed |-> {}, published |-> {}])
  /\ UNCHANGED <<images, handleVars, goVars, engineVars, dispatchVars>>

\* a buildImage loop that starts the layers of all remaining instructions at
\* once, as go.concurrent would
buildGoOn_allAtOnce(b, instructions, h, at, draw, now) ==
  IF at <= Len(instructions)
    THEN /\ builds' = [builds EXCEPT
              ![b].pc = "building", ![b].instructions = instructions,
              ![b].handle = h, ![b].at = at,
              ![b].pending = {buildLayer(instructions[k], draw) :
                                k \in at..Len(instructions)}]
         /\ UNCHANGED images
    ELSE LET e == buildImageStore(images, builds[b].name, h.resource.layers, now)
         IN /\ images' = e.store
            /\ builds' = [builds EXCEPT
                 ![b].pc = "returned", ![b].instructions = instructions,
                 ![b].handle = h, ![b].at = at, ![b].pending = {},
                 ![b].result = e.result, ![b].image = {e.image},
                 ![b].changed = changedKeys(images, e.store),
                 ![b].published = holdingKeys(e.store, e.image)]

\* build b goes on from index `at` with the layers pushed so far: it calls
\* buildLayer for the next instruction and awaits it, or, past the last
\* instruction, stores the image at time `now` and returns
buildGoOn(b, instructions, h, at, draw, now) ==
  IF at <= Len(instructions)
    THEN /\ builds' = [builds EXCEPT
              ![b].pc = "building", ![b].instructions = instructions,
              ![b].handle = h, ![b].at = at,
              ![b].pending = {buildLayer(instructions[at], draw)}]
         /\ UNCHANGED images
    ELSE LET e == buildImageStore(images, builds[b].name, h.resource.layers, now)
         IN /\ images' = e.store
            /\ builds' = [builds EXCEPT
                 ![b].pc = "returned", ![b].instructions = instructions,
                 ![b].handle = h, ![b].at = at, ![b].pending = {},
                 ![b].result = e.result, ![b].image = {e.image},
                 ![b].changed = changedKeys(images, e.store),
                 ![b].published = holdingKeys(e.store, e.image)]

\* fs.readFile completes for build b: a missing file goes to the catch block;
\* otherwise the file is parsed, the context made and borrowed, and the loop
\* entered
BuildRead(b) ==
  /\ b \in DOMAIN builds
  /\ builds[b].pc = "reading"
  /\ IF ~builds[b].file.exists
       THEN LET e == buildImageCatch(images, builds[b].name, ErrNoFile)
            IN /\ images' = e.store
               /\ builds' = [builds EXCEPT
                    ![b].pc = "returned", ![b].result = e.result,
                    ![b].changed = changedKeys(images, e.store)]
       ELSE LET instructions == parseDockerfile(builds[b].file.lines)
                h == borrow(builds[b].handle).handle
            IN \E draw \in Draws, now \in Times :
                 /\ (1 <= Len(instructions) /\ drawsRandom(instructions[1]))
                      \/ draw = 0
                 /\ Len(instructions) = 0 \/ now = 1
                 /\ buildGoOn(b, instructions, h, 1, draw, now)
  /\ UNCHANGED <<handleVars, goVars, engineVars, dispatchVars>>

\* the awaited layer of build b arrives: it is pushed, and the build goes on
BuildStep(b) ==
  /\ b \in DOMAIN builds
  /\ builds[b].pc = "building"
  /\ LET layer == CHOOSE l \in builds[b].pending : TRUE
         h == [builds[b].handle EXCEPT !.resource.layers = Append(@, layer)]
         instructions == builds[b].instructions
         at == builds[b].at + 1
     IN \E draw \in Draws, now \in Times :
          /\ (at <= Len(instructions) /\ drawsRandom(instructions[at]))
               \/ draw = 0
          /\ at > Len(instructions) \/ now = 1
          /\ buildGoOn(b, instructions, h, at, draw, now)
  /\ UNCHANGED <<handleVars, goVars, engineVars, dispatchVars>>

\* pullImage(name, tag) completes
PullImage(name, tag) ==
  /\ \E now \in Times : images' = pullImage(images, name, tag, now).store
  /\ UNCHANGED <<builds, handleVars, goVars, engineVars, dispatchVars>>

(***************************************************************************)
(* DockerNexusEngine.execute (src/app.js 1526-1633) and the modules'       *)
(* process / _handleOperation                                              *)
(*                                                                         *)
(* A payload is [given, name, id, config]: `given` FALSE is execute(op)    *)
(* with no data; name, id and config stand for the fields the operation    *)
(* reads (data.name, data.containerId, data.config).                       *)
(*                                                                         *)
(* A handler either returns a result, throws, or is left awaiting          *)
(* something that takes time (a file read, a directory creation, a timer,  *)
(* the setImmediate callbacks); `st` is the state of the five modules.     *)
(***************************************************************************)
\* the engine's modules, by their keys in this.modules (module.name, which
\* keys metrics.modules, is the same word capitalised)
Modules == {"isolation", "image", "runtime", "network", "storage"}

\* the operationMap of selectModule
operationMap(op) ==
  CASE op \in {"build_image", "pull_image", "push_image", "list_images",
               "remove_image", "inspect_image"} -> "image"
    [] op \in {"run_container", "start_container", "stop_container",
               "list_containers", "exec_container", "logs_container"} -> "runtime"
    [] op \in {"create_network", "list_networks", "connect_container"} -> "network"
    [] op \in {"create_volume", "list_volumes", "remove_volume"} -> "storage"
    [] op \in {"isolate_container", "setup_filesystem"} -> "isolation"
    [] op \in {"start_server", "stop_server", "health_check_web"} -> "webserver"
    [] OTHER -> ""

\* a selectModule that sends every unmapped name to the image module
selectModule_fallback(op) ==
  IF operationMap(op) \in Modules THEN operationMap(op) ELSE "image"

\* selectModule(operation): the module of the mapped name, "" for null (the
\* name is not mapped, or mapped to a module the engine does not have)
selectModule(op) ==
  IF operationMap(op) \in Modules THEN operationMap(op) ELSE ""

ErrNoModule      == "No module found for operation"
ErrUndefinedData == "Cannot read properties of undefined"
ErrNotAFunction  == "is not a function"
ErrUnknownOp     == "Unknown operation"
ErrNetworkExists == "Network already exists"
ErrVolumeExists  == "Volume already exists"
ErrMkdir         == "EACCES: permission denied, mkdir"

Throws(msg, st) ==
  [kind |-> "throw", result |-> NoResult, error |-> msg, pend |-> "",
   handle |-> {}, st |-> st]
Returns(res, st) ==
  [kind |-> "result", result |-> res, error |-> NoError, pend |-> "",
   handle |-> {}, st |-> st]
Awaits(what, handle, st) ==
  [kind |-> "pending", result |-> NoResult, error |-> NoError, pend |-> what,
   handle |-> handle, st |-> st]

\* a method the class does not define is called: the arguments are evaluated
\* first (reading data), then the call throws
missingMethod(data, st) ==
  IF ~data.given THEN Throws(ErrUndefinedData, st) ELSE Throws(ErrNotAFunction, st)

\* ImageModule._handleOperation, up to the handler's first wait
imageHandleOperation(op, data, st) ==
  CASE op \in {"build_image", "pull_image"} ->
         IF ~data.given THEN Throws(ErrUndefinedData, st)
         ELSE Awaits(IF op = "build_image" THEN "build" ELSE "pull", {}, st)
    [] op = "list_images" ->
         Returns(result({{[repository |-> st.images[k].name,
                           tag |-> st.images[k].tag,
                           imageId |-> st.images[k].id] : k \in DOMAIN st.images}},
                        NoError), st)
    [] op \in {"push_image", "remove_image", "inspect_image"} ->
         missingMethod(data, st)
    [] OTHER -> Throws(ErrUnknownOp, st)

\* RuntimeModule._handleOperation, up to the handler's first wait
runtimeHandleOperation(op, data, st) ==
  CASE op = "run_container" ->
         IF ~data.given THEN Throws(ErrUndefinedData, st)
         ELSE LET id == st.nextId + 1
                  b == borrow(own(containerRecord(id, data.name, [volumes |-> <<>>]),
                                  "scoped"))
                  l == goEssenceConcurrent(RuntimeFields, 3)
                  st1 == [st EXCEPT !.nextId = id]
              IN IF l.threw
                   THEN Returns(runContainerCatch(b.handle, l.error).result, st1)
                   ELSE Awaits("run", {b.handle}, st1)
    [] op = "list_containers" ->
         IF ~data.given THEN Throws(ErrUndefinedData, st)
         ELSE LET m == listContainers(st.rt, FALSE)
              IN IF m.threw THEN Throws(m.error, st)
                 ELSE Returns(result({m.rows}, NoError),
                              [st EXCEPT !.rt = m.containers])
    [] op = "logs_container" ->
         IF ~data.given THEN Throws(ErrUndefinedData, st)
         ELSE LET m == getContainerLogs(st.rt, data.id)
              IN IF m.threw THEN Throws(m.error, st)
                 ELSE Returns(m.result, [st EXCEPT !.rt = m.containers])
    [] op \in {"start_container", "stop_container", "exec_container"} ->
         missingMethod(data, st)
    [] OTHER -> Throws(ErrUnknownOp, st)

\* NetworkModule._handleOperation; createNetwork has no wait
networkHandleOperation(op, data, st) ==
  CASE op = "create_network" ->
         IF ~data.given THEN Throws(ErrUndefinedData, st)
         ELSE IF data.name \in st.networks
           THEN Returns(result({}, ErrNetworkExists), st)
           ELSE Returns(result({[name |-> data.name, driver |-> "bridge"]}, NoError),
                        [st EXCEPT !.networks = @ \cup {data.name}])
    [] op = "list_networks" -> Returns(result({st.networks}, NoError), st)
    [] op \in {"connect_container", "disconnect_container", "port_forward"} ->
         missingMethod(data, st)
    [] OTHER -> Throws(ErrUnknownOp, st)

\* StorageModule._handleOperation, up to the handler's first wait; createVolume
\* looks the name up before it awaits fs.mkdir
storageHandleOperation(op, data, st) ==
  CASE op = "create_volume" ->
         IF ~data.given THEN Throws(ErrUndefinedData, st)
         ELSE IF data.name \in st.volumes
           THEN Returns(result({}, ErrVolumeExists), st)
           ELSE Awaits("volume", {}, st)
    [] op = "list_volumes" -> Returns(result({st.volumes}, NoError), st)
    [] op \in {"remove_volume", "mount_volume"} -> missingMethod(data, st)
    [] OTHER -> Throws(ErrUnknownOp, st)

\* IsolationModule._handleOperation, up to the handler's first wait
isolationHandleOperation(op, data, st) ==
  CASE op = "create_namespace" ->
         IF ~data.given THEN Throws(ErrUndefinedData, st)
         ELSE LET r == createNamespace(st.ns, "pid", data.name)
              IN Returns(r.result, [st EXCEPT !.ns = r.table])
    [] op = "create_cgroup" ->
         IF ~data.given THEN Throws(ErrUndefinedData, st)
         ELSE LET r == createCgroup(st.cg, data.name, data.config.resources)
              IN Returns(r.result, [st EXCEPT !.cg = r.table])
    [] op = "isolate_container" ->
         IF ~data.given THEN Throws(ErrUndefinedData, st)
         ELSE LET l == goEssenceConcurrent(IsolationFields, 4)
                  h == own(isolationResource(data.id, data.config),
                           "container_lifetime")
              IN IF l.threw THEN Throws(l.error, st)
                 ELSE Awaits("isolate", {h}, st)
    [] op = "setup_filesystem" ->
         IF ~data.given THEN Throws(ErrUndefinedData, st)
         ELSE Awaits("fs", {}, st)
    [] OTHER -> Throws(ErrUnknownOp, st)

\* module._handleOperation(operation, data, options)
handleOperation(mod, op, data, st) ==
  CASE mod = "image"   -> imageHandleOperation(op, data, st)
    [] mod = "runtime" -> runtimeHandleOperation(op, data, st)
    [] mod = "network" -> networkHandleOperation(op, data, st)
    [] mod = "storage" -> storageHandleOperation(op, data, st)
    [] OTHER           -> isolationHandleOperation(op, data, st)

\* what Promise.all over tasks with outcomes t gives once they all ran
awaitedAll(t) ==
  LET failed == {i \in DOMAIN t : ~t[i].ok}
  IN IF failed = {}
       THEN [threw |-> FALSE, error |-> {}, value |-> [i \in DOMAIN t |-> t[i].val]]
       ELSE [threw |-> TRUE, value |-> <<>>,
             error |-> {t[CHOOSE i \in failed : \A j \in failed : i <= j].val}]

\* the rest of isolateContainer: its four tasks run in the order they were
\* queued, then the call resumes
isolateContainerRest(h, st) ==
  LET id == h.resource.id
      config == h.resource.config
      t1 == isolationTask(1, id, config, st.ns, st.cg)
      t2 == isolationTask(2, id, config, t1.ns, t1.cg)
      t3 == isolationTask(3, id, config, t2.ns, t2.cg)
      t4 == isolationTask(4, id, config, t3.ns, t3.cg)
      e == isolateContainerResume(h, awaitedAll(<<t1, t2, t3, t4>>), st.iso)
      st1 == [st EXCEPT !.ns = t4.ns, !.cg = t4.cg, !.iso = e.containers]
  IN IF e.pc = "threw"
       THEN Throws(CHOOSE m \in e.thrown : TRUE, st1)
       ELSE Returns(e.result, st1)

\* the rest of runContainer: its three tasks run in the order they were
\* queued, then the call resumes
runContainerRest(h, st) ==
  LET t1 == startupTask(1, h, st.rtNets, st.rtProcs)
      t2 == startupTask(2, t1.handle, t1.nets, t1.procs)
      t3 == startupTask(3, t2.handle, t2.nets, t2.procs)
      r == awaitedAll(<<t1, t2, t3>>)
      st1 == [st EXCEPT !.rtNets = t3.nets, !.rtProcs = t3.procs]
  IN IF r.threw
       THEN Returns(runContainerCatch(t3.handle, CHOOSE m \in r.error : TRUE).result,
                    st1)
       ELSE LET e == runContainerStarted(t3.handle, st.rt)
            IN Returns(e.result, [st1 EXCEPT !.rt = e.containers])

\* buildImage as a whole: the file is read and parsed, one layer is built
\* for each instruction (draws[i] is Math.random for instruction i), and the
\* image is stored; a file that cannot be read goes to the catch block
buildImage(store, name, file, draws, now) ==
  IF ~file.exists
    THEN buildImageCatch(store, name, ErrNoFile)
    ELSE LET instructions == parseDockerfile(file.lines)
             layers == [i \in 1..Len(instructions) |->
                          buildLayer(instructions[i],
                                     IF drawsRandom(instructions[i])
                                       THEN draws[i] ELSE 0)]
         IN buildImageStore(store, name, layers, now)

\* what the world gives a waiting handler: whether fs.mkdir succeeds, the
\* build file fs.readFile finds, Math.random and Date.now
Envs ==
  [ok : BOOLEAN, file : BuildFiles, draws : [1..MaxLines -> Draws], now : Times]

NoDraws == [i \in 1..MaxLines |-> 0]

\* an instruction at index i of the file draws a random number
drawsAt(file, i) ==
  /\ file.exists
  /\ i <= Len(parseDockerfile(file.lines))
  /\ drawsRandom(parseDockerfile(file.lines)[i])

\* the part of Envs a handler waiting for `pend` can tell apart
EnvsFor(pend) ==
  CASE pend = "build" ->
         {e \in Envs : e.ok /\ \A i \in 1..MaxLines :
                                  drawsAt(e.file, i) \/ e.draws[i] = 0}
    [] pend = "pull" ->
         {e \in Envs : e.ok /\ ~e.file.exists /\ e.draws = NoDraws}
    [] pend \in {"volume", "fs"} ->
         {e \in Envs : ~e.file.exists /\ e.draws = NoDraws /\ e.now = 1}
    [] OTHER ->
         {e \in Envs : e.ok /\ ~e.file.exists /\ e.draws = NoDraws /\ e.now = 1}

\* the awaited handler goes on to its end
handlerRest(pend, handle, data, st, env) ==
  CASE pend = "build" ->
         LET e == buildImage(st.images, data.name, env.file, env.draws, env.now)
         IN Returns(e.result, [st EXCEPT !.images = e.store])
    [] pend = "pull" ->
         LET e == pullImage(st.images, data.name, "latest", env.now)
         IN Returns(e.result, [st EXCEPT !.images = e.store])
    [] pend = "volume" ->
         IF env.ok
           THEN Returns(result({[name |-> data.name, driver |-> "local"]}, NoError),
                        [st EXCEPT !.volumes = @ \cup {data.name}])
           ELSE Returns(result({}, ErrMkdir), st)
    [] pend = "fs" ->
         IF env.ok
           THEN Returns(result({[containerId |-> data.id, mounted |-> TRUE]},
                               NoError), st)
           ELSE Returns(result({}, ErrMkdir), st)
    [] pend = "isolate" ->
         isolateContainerRest(CHOOSE h \in handle : TRUE, st)
    [] OTHER ->
         runContainerRest(CHOOSE h \in handle : TRUE, st)

NoStats == [operations |-> 0, totalTime |-> 0]

\* an updateStats that adds the time but does not count the operation
updateStats_noCount(mm, moduleName, executionTime) ==
  LET old == IF moduleName \in DOMAIN mm THEN mm[moduleName] ELSE NoStats
  IN MapSet(mm, moduleName,
            [operations |-> old.operations,
             totalTime  |-> old.totalTime + executionTime])

\* updateStats(moduleName, operation, executionTime) on metrics.modules
updateStats(mm, moduleName, executionTime) ==
  LET old == IF moduleName \in DOMAIN mm THEN mm[moduleName] ELSE NoStats
  IN MapSet(mm, moduleName,
            [operations |-> old.operations + 1,
             totalTime  |-> old.totalTime + executionTime])

NoOutcome == [success |-> FALSE, module |-> "", result |-> NoResult,
              error |-> NoError, executionTime |-> 0]

\* an execute whose catch block lets the error go on to the caller
executeCatch_rethrow(m, msg, executionTime) ==
  [metrics |-> [m EXCEPT !.errors = @ + 1], pc |-> "threw", outcome |-> NoOutcome]

\* execute's catch block: metrics.errors grows, the outcome is a failure
\* that carries the error's message
executeCatch(m, msg, executionTime) ==
  [metrics |-> [m EXCEPT !.errors = @ + 1],
   pc      |-> "returned",
   outcome |-> [success |-> FALSE, module |-> "", result |-> NoResult,
                error |-> msg, executionTime |-> executionTime]]

\* execute after `await module.process(...)` returned: the module's metrics
\* are updated and the outcome is a success that carries the result
executeReturn(m, moduleName, res, executionTime) ==
  [metrics |-> [m EXCEPT !.modules = updateStats(@, moduleName, executionTime)],
   pc      |-> "returned",
   outcome |-> [success |-> TRUE, module |-> moduleName, result |-> res,
                error |-> NoError, executionTime |-> executionTime]]

\* process's catch block: the module's stats.errors grows (the error is
\* thrown on to execute)
processCatch(stats, moduleName) ==
  [stats EXCEPT ![moduleName].errors = @ + 1]

\* execute once the handler h has returned or thrown in module moduleName
executeEnd(m, stats, moduleName, h, executionTime) ==
  IF h.kind = "throw"
    THEN executeCatch(m, h.error, executionTime)
           @@ [stats |-> processCatch(stats, moduleName)]
    ELSE executeReturn(m, moduleName, h.result, executionTime)
           @@ [stats |-> stats]

(***************************************************************************)
(* The dispatcher.  dispatches[d] is one execute call:                     *)
(*   pc "awaiting"  in `await module.process(...)`, the handler waiting    *)
(*      "returned"  done, with `outcome`                                   *)
(*      "threw"     an error left execute                                  *)
(* handler is how the module's handler ended ("result", "throw", or "none" *)
(* when no module was called).  statsGrew, opsGrew and timeGrew are what   *)
(* the call's own steps added to the modules' stats.operations and to      *)
(* metrics.modules[...].operations and .totalTime.                         *)
(***************************************************************************)
InterfaceOps ==
  {"build_image", "pull_image", "list_images", "remove_image", "inspect_image",
   "create_namespace", "create_cgroup", "isolate_container", "setup_filesystem",
   "run_container", "start_container", "stop_container", "list_containers",
   "exec_container", "logs_container", "create_network", "list_networks",
   "connect_container", "create_volume", "list_volumes", "remove_volume"}
Operations == InterfaceOps \cup {"push_image", "start_server", "not_a_real_op"}

NoData == [given |-> FALSE, name |-> "", id |-> 0,
           config |-> [defined |-> FALSE, resources |-> [memory |-> ""]]]
Payloads(op) ==
  {NoData} \cup
  {[given |-> TRUE, name |-> "a", id |-> 1, config |-> c] :
     c \in IF op = "isolate_container" THEN Configs
           ELSE {[defined |-> TRUE, resources |-> [memory |-> ""]]}}

\* Date.now() - startTime at the end of an execute call that waited for its
\* handler; a call that never waited ends in the turn it began in, at 0
Elapsed == {0, 1}

InitDispatchVars ==
  /\ netNetworks = {"bridge"}
  /\ volumes = {}
  /\ modStats = [m \in Modules |-> [operations |-> 0, errors |-> 0]]
  /\ metrics = [commands |-> 0, errors |-> 0, modules |-> EmptyMap]
  /\ dispatches = <<>>

\* the state of the five modules
ModState ==
  [images |-> images, networks |-> netNetworks, volumes |-> volumes,
   ns |-> nsTable, cg |-> cgTable, iso |-> isoContainers, rt |-> rtContainers,
   rtNets |-> rtNetworks, rtProcs |-> rtProcesses, nextId |-> nextId]

SetModState(st) ==
  /\ images' = st.images
  /\ netNetworks' = st.networks
  /\ volumes' = st.volumes
  /\ nsTable' = st.ns
  /\ cgTable' = st.cg
  /\ isoContainers' = st.iso
  /\ rtContainers' = st.rt
  /\ rtNetworks' = st.rtNets
  /\ rtProcesses' = st.rtProcs
  /\ nextId' = st.nextId

OpsOf(m, k)  == IF k \in DOMAIN m.modules THEN m.modules[k].operations ELSE 0
TimeOf(m, k) == IF k \in DOMAIN m.modules THEN m.modules[k].totalTime ELSE 0

\* what a step from metrics m0 to m1 added to each module's metrics
opsGrowth(m0, m1)  == [k \in Modules |-> OpsOf(m1, k) - OpsOf(m0, k)]
timeGrowth(m0, m1) == [k \in Modules |-> TimeOf(m1, k) - TimeOf(m0, k)]
statsGrowth(s0, s1) == [k \in Modules |-> s1[k].operations - s0[k].operations]

\* execute(operation, data), up to its return or to the handler's first wait
Execute(op, data) ==
  /\ Len(dispatches) < MaxDispatch
  /\ LET m1 == [metrics EXCEPT !.commands = @ + 1]
         mod == selectModule(op)
         new == [op |-> op, data |-> data, module |-> mod, pc |-> "awaiting",
                 pend |-> "", handle |-> {}, handler |-> "none",
                 outcome |-> NoOutcome,
                 statsGrew |-> [k \in Modules |-> 0],
                 opsGrew |-> [k \in Modules |-> 0],
                 timeGrew |-> [k \in Modules |-> 0]]
     IN IF mod = ""
          THEN LET e == executeCatch(m1, ErrNoModule, 0)
               IN /\ metrics' = e.metrics
                  /\ dispatches' = Append(dispatches,
                       [new EXCEPT !.pc = e.pc, !.outcome = e.outcome,
                                   !.opsGrew = opsGrowth(metrics, e.metrics),
                                   !.timeGrew = timeGrowth(metrics, e.metrics)])
                  /\ UNCHANGED <<modStats, images, netNetworks, volumes, nsTable,
                                 cgTable, isoContainers, rtContainers,
                                 rtNetworks, rtProcesses, nextId>>
          ELSE LET s1 == [modStats EXCEPT ![mod].operations = @ + 1]
                   h == handleOperation(mod, op, data, ModState)
               IN /\ SetModState(h.st)
                  /\ IF h.kind = "pending"
                       THEN /\ metrics' = m1
                            /\ modStats' = s1
                            /\ dispatches' = Append(dispatches,
                                 [new EXCEPT !.pend = h.pend, !.handle = h.handle,
                                             !.statsGrew = statsGrowth(modStats, s1)])
                       ELSE LET e == executeEnd(m1, s1, mod, h, 0)
                            IN /\ metrics' = e.metrics
                               /\ modStats' = e.stats
                               /\ dispatches' = Append(dispatches,
                                    [new EXCEPT
                                       !.pc = e.pc, !.outcome = e.outcome,
                                       !.handler = h.kind,
                                       !.statsGrew = statsGrowth(modStats, e.stats),
                                       !.opsGrew = opsGrowth(metrics, e.metrics),
                                       !.timeGrew = timeGrowth(metrics, e.metrics)])
  /\ UNCHANGED <<calls, immediates, lastRead, builds, handleVars, goVars>>

\* the handler of execute call d ends, and execute goes on to its return
ExecuteResume(d) ==
  /\ d \in DOMAIN dispatches
  /\ dispatches[d].pc = "awaiting"
  /\ \E env \in EnvsFor(dispatches[d].pend), t \in Elapsed :
       LET call == dispatches[d]
           h == handlerRest(call.pend, call.handle, call.data, ModState, env)
           e == executeEnd(metrics, modStats, call.module, h, t)
       IN /\ SetModState(h.st)
          /\ metrics' = e.metrics
          /\ modStats' = e.stats
          /\ dispatches' = [dispatches EXCEPT
               ![d].pc = e.pc, ![d].outcome = e.outcome, ![d].handler = h.kind,
               ![d].opsGrew = opsGrowth(metrics, e.metrics),
               ![d].timeGrew = timeGrowth(metrics, e.metrics)]
  /\ UNCHANGED <<calls, immediates, lastRead, builds, handleVars, goVars>>

(***************************************************************************)
(* Specifications                                                          *)
(***************************************************************************)
\* the state after construction: fresh handles, no go.concurrent call made,
\* the modules' maps empty
Init == InitHandleVars /\ InitGoVars /\ InitEngineVars /\ InitImageVars
          /\ InitDispatchVars

HandleNext == \E i \in HandleIds : Borrow(i) \/ Drop(i)

SpecHandle == Init /\ [][HandleNext]_vars

GoNext ==
  \/ Concurrent
  \/ \E i \in 1..MaxTasks : GoroutineStart(i) \/ TaskSettle(i)
  \/ AwaitResume

SpecGo == Init /\ [][GoNext]_vars

Next ==
  \/ \E id \in IsoIds, config \in Configs : IsolateContainer(id, config)
  \/ \E image \in Images, opts \in Options : RunContainer(image, opts)
  \/ \E c \in 1..MaxCalls, i \in 1..4 : CallTask(c, i)
  \/ \E c \in 1..MaxCalls : CallResume(c)
  \/ \E showAll \in BOOLEAN : ListContainers(showAll)
  \/ \E id \in 1..MaxCalls : GetContainerLogs(id)

Spec == Init /\ [][Next]_vars

\* one buildImage call over any build file
BuildNext ==
  \/ \E name \in ImageNames, file \in FilesOver(Lines) :
       builds = <<>> /\ BuildImage(name, file)
  \/ \E b \in 1..MaxBuilds : BuildRead(b) \/ BuildStep(b)

SpecBuild == Init /\ [][BuildNext]_vars

\* buildImage and pullImage calls, in any interleaving
ImageNext ==
  \/ \E name \in ImageNames, file \in BuildFiles : BuildImage(name, file)
  \/ \E b \in 1..MaxBuilds : BuildRead(b) \/ BuildStep(b)
  \/ \E name \in ImageNames, tag \in Tags : PullImage(name, tag)

SpecImage == Init /\ [][ImageNext]_vars

\* execute calls, in any interleaving
DispatchNext ==
  \/ \E op \in Operations : \E data \in Payloads(op) : Execute(op, data)
  \/ \E d \in 1..MaxDispatch : ExecuteResume(d)

SpecDispatch == Init /\ [][DispatchNext]_vars

(***************************************************************************)
(* Claims about runContainer (Spec)                                        *)
(***************************************************************************)
RunCalls == {c \in DOMAIN calls : calls[c].kind = "run"}
IsoCalls == {c \in DOMAIN calls : calls[c].kind = "isolate"}
Container(c) == calls[c].handle.resource

\* the three startup tasks of this container all succeed when they are run
StartupTasksSucceed(h) ==
  \A i \in 1..3 : startupTask(i, h, EmptyMap, EmptyMap).ok

\* the three startup tasks of call c have run and fulfilled
AllStartupFulfilled(c) ==
  /\ Len(calls[c].ts.st) = 3
  /\ \A i \in 1..3 : calls[c].ts.st[i] = "fulfilled"

Registered(id) == SeqHas(rtContainers, id)

\* C1: a runContainer whose three setup tasks (network, volumes, process
\* start) all succeed ends with the container 'running', its start time
\* recorded, the container registered in the runtime's containers, and an Ok
\* result returned to the caller.
C1_AllTasksSucceedThenRunning ==
  \A c \in RunCalls :
    (calls[c].pc # "awaiting" /\ StartupTasksSucceed(calls[c].handle)) =>
      /\ calls[c].pc = "returned"
      /\ Container(c).status = "running"
      /\ Container(c).started # {}
      /\ Registered(calls[c].id)
      /\ calls[c].result.isOk

\* C2: a container is 'running' only if the three setup tasks of its
\* runContainer have all completed successfully; it is never 'running' while
\* one of them is pending, has failed or was never started.
C2_RunningOnlyAfterAllTasks ==
  /\ \A c \in RunCalls :
       ~AllStartupFulfilled(c) => Container(c).status # "running"
  /\ \A k \in DOMAIN rtContainers :
       rtContainers[k].handle.resource.status = "running" =>
         \E c \in RunCalls : calls[c].id = rtContainers[k].id /\ AllStartupFulfilled(c)

\* C2 witness: a runContainer has ended without its three tasks fulfilled,
\* and its container is not 'running'
C2_Witness ==
  \E c \in RunCalls :
    /\ calls[c].pc = "returned"
    /\ ~AllStartupFulfilled(c)
    /\ Container(c).status = "failed"

\* the setup of call c failed: the call went on without a fulfilled task set
SetupFailed(c) == calls[c].pc # "awaiting" /\ calls[c].ts.all # "fulfilled"

\* C3: when the setup of a runContainer fails, runContainer does not throw:
\* the container's status is 'failed', the failure reason is stored on the
\* container record, and the caller gets an Err result carrying that reason.
C3_SetupFailureIsTaggedResult ==
  \A c \in RunCalls :
    SetupFailed(c) =>
      /\ calls[c].pc = "returned"
      /\ calls[c].thrown = {}
      /\ Container(c).status = "failed"
      /\ Container(c).error # NoError
      /\ calls[c].result.isErr
      /\ calls[c].result.error = Container(c).error

\* C3 witness: a runContainer whose setup failed has returned an Err result
C3_Witness ==
  \E c \in RunCalls :
    /\ SetupFailed(c)
    /\ calls[c].pc = "returned"
    /\ calls[c].result.isErr
    /\ Container(c).error = ErrNoConcurrent

\* C4: after a failed runContainer, listContainers(false) does not return the
\* container and listContainers(true) returns it with status 'failed'.
C4_FailedContainerListed ==
  (lastRead.op = "list" /\ ~lastRead.threw) =>
    \A c \in RunCalls :
      Container(c).status = "failed" =>
        LET shown == \E k \in DOMAIN lastRead.rows :
                       /\ lastRead.rows[k].containerId = calls[c].id
                       /\ lastRead.rows[k].status = "failed"
        IN IF lastRead.all THEN shown ELSE ~shown

(***************************************************************************)
(* Claims about the ownership handle (SpecHandle)                          *)
(***************************************************************************)
\* C5: a borrow() on a handle that is already Borrowed fails with the
\* borrow error, returns no reference to the resource and leaves the
\* handle's state unchanged.
C5_BorrowWhileBorrowedFails ==
  (hLast.op = "borrow" /\ hLast.pre = "Borrowed") =>
    /\ hLast.threw
    /\ hLast.error = ErrCannotBorrow
    /\ hLast.value = {}
    /\ hLast.same
    /\ HState(hHandles[hLast.h]) = "Borrowed"

\* C5 witness: a second borrow() with no drop() in between has been made
C5_Witness ==
  /\ hLast.op = "borrow"
  /\ hLast.pre = "Borrowed"
  /\ hLast.threw

\* C6: once drop() has been called, every later borrow() fails, the handle
\* stays Dropped, and the error (UseAfterDrop) differs from the error a
\* borrow() of a Borrowed handle fails with (AlreadyBorrowed).
C6_UseAfterDropIsItsOwnError ==
  /\ (hLast.op = "borrow" /\ hLast.pre = "Dropped") =>
       (hLast.threw /\ hLast.value = {} /\ hLast.post = "Dropped")
  /\ hErrBorrowed \cap hErrDropped = {}

\* C7: a drop() on an already Dropped handle raises no error and leaves the
\* handle exactly as the first drop() left it; the release runs once.
C7_DropIsIdempotent ==
  /\ (hLast.op = "drop" /\ hLast.pre = "Dropped") =>
       (~hLast.threw /\ hLast.same /\ hLast.post = "Dropped")
  /\ \A i \in HandleIds : hReleases[i] <= 1
  /\ \A i \in HandleIds : hHandles[i].dropped <=> hReleases[i] = 1

\* C7 witness: a second drop() has been made on a Dropped handle
C7_Witness ==
  /\ hLast.op = "drop"
  /\ hLast.pre = "Dropped"
  /\ hReleases[hLast.h] = 1

(***************************************************************************)
(* Claims about go.concurrent (SpecGo)                                     *)
(***************************************************************************)
GoDone == goCaller.pc \in {"returned", "threw"}

\* C8: when at least one task fails, the caller of go.concurrent goes on only
\* after every task has finished, and holds one result per task.
C8_NoShortCircuit ==
  (GoDone /\ \E i \in DOMAIN goTasks : ~goTasks[i].ok) =>
    /\ \A i \in DOMAIN goTasks : Finished(goTs, i)
    /\ Len(goCaller.value) = Len(goTasks)

\* C9: when all n tasks succeed, whatever the order they complete in, the
\* caller gets a list of length n whose i-th element is task i's value.
C9_PositionalAlignment ==
  (GoDone /\ \A i \in DOMAIN goTasks : goTasks[i].ok) =>
    /\ goCaller.pc = "returned"
    /\ Len(goCaller.value) = Len(goTasks)
    /\ \A i \in DOMAIN goTasks : goCaller.value[i] = goTasks[i].val

\* C9 witness: the caller got its list after tasks with different values
\* completed out of their input order
C9_Witness ==
  /\ goCaller.pc = "returned"
  /\ Len(goTasks) >= 2
  /\ \E j, k \in DOMAIN goOrder :
       /\ j < k
       /\ goOrder[j] > goOrder[k]
       /\ goTasks[goOrder[j]].val # goTasks[goOrder[k]].val

(***************************************************************************)
(* Claims about isolateContainer (Spec)                                    *)
(***************************************************************************)
\* C10: when one of the four provisioning tasks of isolateContainer fails,
\* isolateContainer does not throw: it returns a tagged failure that carries
\* the results of the tasks that succeeded.
C10_PartialFailureIsTaggedResult ==
  \A c \in IsoCalls :
    (calls[c].pc # "awaiting" /\ \E i \in 1..4 : calls[c].ts.st[i] = "rejected") =>
      /\ calls[c].pc = "returned"
      /\ calls[c].result.isErr
      /\ \A i \in 1..4 :
           calls[c].ts.st[i] = "fulfilled" =>
             \E v \in calls[c].result.value : calls[c].ts.vals[i] \subseteq v.results

\* C11: allocating a namespace or a control group under a name that is
\* already allocated is rejected: of two isolateContainer calls for the same
\* containerId, the later one's provisioning task does not succeed where the
\* earlier one's task has already allocated that name.
C11_DuplicateNameRejected ==
  \A c1, c2 \in IsoCalls :
    (c1 < c2 /\ calls[c1].id = calls[c2].id) =>
      \A i \in 1..4 :
        calls[c1].ts.st[i] = "fulfilled" => calls[c2].ts.st[i] # "fulfilled"

(***************************************************************************)
(* Claims about buildImage                                                 *)
(***************************************************************************)
ReturnedBuilds == {b \in DOMAIN builds : builds[b].pc = "returned"}
OkBuilds == {b \in ReturnedBuilds : builds[b].result.isOk}

\* the instructions of a build file: its lines that are neither blank nor
\* comments, in their order
InstructionLines(file) ==
  SelectSeq(file.lines,
            LAMBDA l : l.word # "" /\ ~(~l.indent /\ l.word = "#"))

\* the layer kind that belongs to a verb
KindOfVerb(verb) ==
  CASE verb = "FROM"                 -> "base"
    [] verb = "RUN"                  -> "run"
    [] verb \in {"COPY", "ADD"}      -> "copy"
    [] verb = "ENV"                  -> "env"
    [] verb = "EXPOSE"               -> "expose"
    [] verb \in {"CMD", "ENTRYPOINT"} -> "entrypoint"
    [] OTHER                         -> "unknown"

C13_FailedBuildPublishesNothing ==
  \A b \in ReturnedBuilds :
    ~builds[b].file.exists =>
      /\ ~builds[b].result.isOk
      /\ builds[b].result.error # NoError
      /\ builds[b].image = {}
      /\ builds[b].published = {}
      /\ builds[b].changed = {}

\* a build has failed while an image built earlier is stored under its
\* name:latest
C13_Witness ==
  \E b \in ReturnedBuilds, b0 \in OkBuilds :
    /\ ~builds[b].result.isOk
    /\ builds[b0].name = builds[b].name
    /\ imageKey(builds[b].name, "latest") \in DOMAIN images
    /\ images[imageKey(builds[b].name, "latest")] \in builds[b0].image

\* C14: a successful build of `name` leaves its image in the store under
\* name:latest and under no other key, and its storing step alters no other
\* key of the store.
C14_BuildStoresUnderNameLatest ==
  \A b \in OkBuilds :
    /\ builds[b].image # {}
    /\ builds[b].published = {imageKey(builds[b].name, "latest")}
    /\ builds[b].changed \subseteq {imageKey(builds[b].name, "latest")}

\* a build has replaced the image of an earlier build under app:latest while
\* another key of the store was in use
C14_Witness ==
  \E b1, b2 \in OkBuilds :
    /\ builds[b1].name = builds[b2].name
    /\ builds[b1].image # builds[b2].image
    /\ builds[b2].changed = {imageKey(builds[b2].name, "latest")}
    /\ images[imageKey(builds[b2].name, "latest")] \in builds[b2].image
    /\ imageKey(builds[b2].name, "v1") \in DOMAIN images

\* the time at which a build made its image id
BuildTime(b) == (CHOOSE im \in builds[b].image : TRUE).id[3]
ImageIdOf(b) == (CHOOSE im \in builds[b].image : TRUE).id

\* C15: two successful builds of the same name and the same instruction
\* list whose ids were made at the same time have the same image id.
C15_SameInputsSameId ==
  \A b1, b2 \in OkBuilds :
    ( /\ builds[b1].name = builds[b2].name
      /\ builds[b1].instructions = builds[b2].instructions
      /\ BuildTime(b1) = BuildTime(b2) )
      => ImageIdOf(b1) = ImageIdOf(b2)

(***************************************************************************)
(* Claims about execute                                                    *)
(***************************************************************************)
Returned == {d \in DOMAIN dispatches : dispatches[d].pc = "returned"}
NoGrowth == [k \in Modules |-> 0]

\* C16: an execute call whose operation name the routing table does not map
\* to a module of the engine returns a failure outcome that says no module
\* was found, and adds nothing to any module's stats.operations nor to any
\* module's operations and totalTime in the engine's metrics.
C16_UnroutedTouchesNoCounter ==
  \A d \in DOMAIN dispatches :
    operationMap(dispatches[d].op) \notin Modules =>
      /\ dispatches[d].pc = "returned"
      /\ ~dispatches[d].outcome.success
      /\ dispatches[d].outcome.error = ErrNoModule
      /\ dispatches[d].statsGrew = NoGrowth
      /\ dispatches[d].opsGrew = NoGrowth
      /\ dispatches[d].timeGrew = NoGrowth

\* an unmapped name was dispatched after a create_network call had been
\* counted for the network module
C16_Witness ==
  \E d \in Returned :
    /\ dispatches[d].op = "not_a_real_op"
    /\ d > 1
    /\ OpsOf(metrics, "network") = 1
    /\ modStats["network"].operations = 1

\* C17: an execute call routed to a module adds exactly one to that module's
\* operations in the engine's metrics and the call's elapsed time to its
\* totalTime, however the handler ended.
C17_RoutedCallIsCounted ==
  \A d \in Returned :
    dispatches[d].module # "" =>
      /\ dispatches[d].opsGrew[dispatches[d].module] = 1
      /\ dispatches[d].timeGrew[dispatches[d].module]
           = dispatches[d].outcome.executionTime

\* C18: no execute call lets an error out, whatever the operation name and
\* the payload and however the handler ended; a call that returned gave an
\* outcome that is a success naming its module or a failure carrying an
\* error.
C18_ExecuteNeverThrows ==
  \A d \in DOMAIN dispatches :
    /\ dispatches[d].pc # "threw"
    /\ dispatches[d].pc = "returned" =>
         IF dispatches[d].outcome.success
           THEN dispatches[d].outcome.module \in Modules
           ELSE dispatches[d].outcome.error # NoError

\* execute calls have returned failures for an unmapped name, for a call
\* with no payload and for an operation whose handler the module lacks
C18_Witness ==
  \E d1, d2 \in Returned :
    /\ dispatches[d1].outcome.error \in {ErrNoModule, ErrUndefinedData}
    /\ dispatches[d2].op = "remove_image"
    /\ dispatches[d2].handler = "throw"
    /\ dispatches[d2].outcome.error = ErrNotAFunction

\* C19: an execute call's outcome says success only when the module's
\* operation succeeded: a handler that returned a failure result gives an
\* outcome with success FALSE that carries the error.
C19_OutcomeReflectsResult ==
  \A d \in Returned :
    /\ dispatches[d].outcome.success => dispatches[d].outcome.result.isOk
    /\ (dispatches[d].handler = "result" /\ dispatches[d].outcome.result.isErr)
         => ~dispatches[d].outcome.success

\* C20: no execute call for an operation name of the external interface
\* ends with the failure that no module was found.
C20_InterfaceOpsAreRouted ==
  \A d \in Returned :
    dispatches[d].op \in InterfaceOps =>
      /\ dispatches[d].module \in Modules
      /\ dispatches[d].outcome.error # ErrNoModule

StatusMoves ==
  {<<"created", "running">>, <<"created", "failed">>,
   <<"running", "stopped">>, <<"running", "failed">>}

\* C22: the status of a container record changes only along created ->
\* running, created -> failed, running -> stopped, running -> failed: a
\* record that a step makes (it is made 'created') has moved at most once
\* along these by the end of the step, and a later step changes a record's
\* status only along one of them, so 'stopped' and 'failed' are never left.
C22_StatusMoves ==
  [][\A c \in DOMAIN calls' :
       calls'[c].kind = "run" =>
         LET now == calls'[c].handle.resource.status
         IN IF c \in DOMAIN calls
              THEN LET was == calls[c].handle.resource.status
                   IN was = now \/ <<was, now>> \in StatusMoves
              ELSE now = "created" \/ <<"created", now>> \in StatusMoves
    ]_vars

\* a container has failed, and operations went on after that
C22_Witness ==
  \E c1, c2 \in RunCalls :
    /\ c1 < c2
    /\ Container(c1).status = "failed"
    /\ Container(c2).status = "failed"
    /\ lastRead.op = "list"

IsPrefix(s, t) == Len(s) <= Len(t) /\ \A k \in 1..Len(s) : s[k] = t[k]

FailedIsoCalls ==
  {c \in IsoCalls : \E i \in 1..4 : calls[c].ts.st[i] = "rejected"}

\* C26: isolateContainer rolls nothing back: once one of its four tasks has
\* failed, the namespace or cgroup of every task of the call that succeeded
\* is in the module's tables and stays there, and the step in which the call
\* ends with the failure registers no container and touches neither table.
C26_NoRollback ==
  [][\A c \in DOMAIN calls' :
       (calls'[c].kind = "isolate"
          /\ \E i \in 1..4 : calls'[c].ts.st[i] = "rejected") =>
         /\ \A i \in 1..3 :
              calls'[c].ts.st[i] = "fulfilled" =>
                /\ <<calls'[c].id, NsTypes[i]>> \in DOMAIN nsTable'
                /\ nsTable'[<<calls'[c].id, NsTypes[i]>>] = namespace(NsTypes[i])
         /\ calls'[c].ts.st[4] = "fulfilled" => calls'[c].id \in DOMAIN cgTable'
         /\ calls'[c].pc # "returned"
         /\ (c \in DOMAIN calls /\ calls[c].pc = "awaiting"
               /\ calls'[c].pc # "awaiting") =>
              UNCHANGED <<isoContainers, nsTable, cgTable>>
    ]_vars

\* an isolateContainer call has thrown after its cgroup task failed and its
\* three namespace tasks succeeded, and no container of its id is registered
C26_Witness ==
  \E c \in FailedIsoCalls :
    /\ calls[c].pc = "threw"
    /\ \A i \in 1..3 : calls[c].ts.st[i] = "fulfilled"
    /\ <<calls[c].id, "pid">> \in DOMAIN nsTable
    /\ ~SeqHas(isoContainers, calls[c].id)

(***************************************************************************)
(* The handle over its whole lifetime (SpecHandle)                         *)
(***************************************************************************)
\* C27: borrow succeeds at most once over a handle's lifetime: a borrow()
\* succeeds only on a handle that is Free, a successful borrow leaves it
\* Borrowed, and no operation brings a handle that has left Free back to
\* Free (drop takes it to Dropped), so every borrow after the first fails.
C27_BorrowAtMostOnce ==
  [][/\ \A i \in HandleIds :
          HState(hHandles[i]) # "Free" => HState(hHandles'[i]) # "Free"
     /\ (hLast'.op = "borrow" /\ ~hLast'.threw) =>
          /\ HState(hHandles[hLast'.h]) = "Free"
          /\ HState(hHandles'[hLast'.h]) = "Borrowed"
     /\ (hLast'.op = "borrow" /\ HState(hHandles[hLast'.h]) # "Free") =>
          (hLast'.threw /\ hLast'.value = {})
    ]_vars

\* a second borrow() on a Borrowed handle has just failed, and another
\* handle has been dropped
C27_Witness ==
  /\ hLast.op = "borrow"
  /\ hLast.threw
  /\ hLast.pre = "Borrowed"
  /\ HState(hHandles[hLast.h]) = "Borrowed"
  /\ \E i \in HandleIds : i # hLast.h /\ HState(hHandles[i]) = "Dropped"

(***************************************************************************)
(* Claims about concurrent execute calls (SpecDispatch)                    *)
(***************************************************************************)
\* the create_volume calls that returned a success result
CreatedVolume ==
  {d \in Returned : /\ dispatches[d].op = "create_volume"
                    /\ dispatches[d].handler = "result"
                    /\ dispatches[d].outcome.result.isOk}

\* C28: a volume name is created at most once: under any interleaving of
\* createVolume calls, no two calls with the same name both return a
\* success result.
C28_VolumeCreatedAtMostOnce ==
  \A d1, d2 \in CreatedVolume :
    dispatches[d1].data.name = dispatches[d2].data.name => d1 = d2

\* C29: an operation the router maps to a module is handled by that
\* module: no execute call that was routed to a module and given a payload
\* ends with the failure that the handler method is not a function.
C29_RoutedOpsHaveHandlers ==
  \A d \in Returned :
    (dispatches[d].module \in Modules /\ dispatches[d].data.given) =>
      dispatches[d].outcome.error # ErrNotAFunction

\* the sum of metrics.modules[k].operations over the keys in S
RECURSIVE SumOps(_, _)
SumOps(m, S) ==
  IF S = {} THEN 0
  ELSE LET k == CHOOSE x \in S : TRUE
       IN m.modules[k].operations + SumOps(m, S \ {k})

\* metrics.errors plus the operations of every module in metrics.modules
Settled(m) == m.errors + SumOps(m, DOMAIN m.modules)

\* the execute calls that are waiting for their handler
InFlight(ds) == {d \in DOMAIN ds : ds[d].pc = "awaiting"}

\* C30: the engine's counters are conserved under any interleaving of
\* execute calls: metrics.commands is never less than metrics.errors plus
\* the sum of the modules' operations, the difference is the number of calls
\* in flight (so the two are equal when none is), every call adds one to
\* commands when it starts, and the step in which a call ends adds one to
\* either errors or one module's operations and nothing to the other.
C30_CountersConserved ==
  /\ [](/\ metrics.commands >= Settled(metrics)
        /\ metrics.commands = Settled(metrics) + Cardinality(InFlight(dispatches))
        /\ metrics.commands = Len(dispatches))
  /\ [][/\ metrics'.commands = metrics.commands + (Len(dispatches') - Len(dispatches))
        /\ Len(dispatches') - Len(dispatches) \in {0, 1}
        /\ metrics'.errors - metrics.errors \in {0, 1}
        /\ Settled(metrics') - Settled(metrics) \in {0, 1}
        /\ \A k \in DOMAIN metrics.modules : k \in DOMAIN metrics'.modules
        /\ \A k \in DOMAIN metrics'.modules :
             OpsOf(metrics', k) - OpsOf(metrics, k) \in {0, 1}
        /\ Settled(metrics') - Settled(metrics) =
             Cardinality({d \in DOMAIN dispatches' :
                            /\ dispatches'[d].pc # "awaiting"
                            /\ d \in DOMAIN dispatches => dispatches[d].pc = "awaiting"})
       ]_vars

\* two execute calls have ended, one counted as an error and one, which
\* waited for its handler, counted as an operation of its module
C30_Witness ==
  /\ Len(dispatches) = 2
  /\ InFlight(dispatches) = {}
  /\ metrics.commands = 2
  /\ metrics.errors = 1
  /\ SumOps(metrics, DOMAIN metrics.modules) = 1
  /\ \E d \in DOMAIN dispatches :
       dispatches[d].pend # "" /\ dispatches[d].outcome.success

====
